---- MODULE Spec2Model ----
(***************************************************************************)
(* Bubble Shooter (src/game.js): the game simulation as a state machine.   *)
(*                                                                         *)
(* Lengths are fixed-point integers in hundredths of a pixel, speeds in    *)
(* hundredths of a pixel per second, times in milliseconds.  Math.round(v) *)
(* is floor(v + 1/2); a product with a fraction (friction, dt) is cut     *)
(* toward zero.                                                            *)
(* Every Math.random() draw (pickColor) is a nondeterministic choice.      *)
(***************************************************************************)
EXTENDS Integers, Sequences, FiniteSets, TLC

VARIABLES
    grid,         \* state.grid: sequence of rows, each a sequence of bubbles
    projectiles,  \* state.projectiles
    nextColor,    \* state.nextColor ("null" before the first startGame)
    score,        \* state.score
    shots,        \* state.shots
    gameOver,     \* state.gameOver
    lastTime,     \* state.lastTime: 0 = unset, 1 = holds the previous timestamp
    spawnTimer,   \* state.spawnTimer (ms)
    overlay,      \* the overlay element: [show |-> BOOLEAN, text |-> "start" | "win" | "lose"]
    canvas,       \* the canvas element: [width, height] in pixels, fixed at page load
    frameMs,      \* the display's frame interval (ms), fixed at page load
    endGameCalls, \* history: calls of endGame(true) / endGame(false) since the last startGame
    log           \* history: what the last handler did (placements, row push) with snapshots

vars == <<grid, projectiles, nextColor, score, shots, gameOver, lastTime,
          spawnTimer, overlay, canvas, frameMs, endGameCalls, log>>

----------------------------------------------------------------------------
(* CONFIG (src/game.js:3-22)                                               *)

bubbleRadius == 16
launchSpeed == 720
frictionPerMille == 988
minCluster == 3
spawnRowInterval == 14000
maxBounce == 8
rowHeightFactorPct == 162

(* Bounds of the model.  The canvas size comes from the page, the palette  *)
(* and the initial row count are scaled down from CONFIG.                  *)
CanvasWidth == 96
CanvasHeight == 180
rowCount == 2
MaxShots == 2
FlightHeight == 236
NumStreams == 2
colors == {"blue", "pink"}

\* The Math.random() draws of one handler, as a periodic stream of pickColor
\* results: stream k gives its n-th draw (n = 1, 2, ...) the colour Draw(k, n).
Patterns ==
    << <<"blue", "blue", "pink">>, <<"pink", "blue", "blue">>,
       <<"blue", "pink", "blue">>, <<"pink", "pink", "pink">>,
       <<"blue", "blue", "blue">>, <<"pink", "pink", "blue">>,
       <<"blue", "pink", "pink">>, <<"pink", "blue", "pink">> >>

Streams == 1..(IF NumStreams < Len(Patterns) THEN NumStreams ELSE Len(Patterns))

Draw(k, n) == Patterns[k][((n - 1) % 3) + 1]

r == bubbleRadius * 100
width == canvas.width * 100
height == canvas.height * 100
rowHeight == (r * rowHeightFactorPct) \div 100
perRow == width \div (r * 2)

----------------------------------------------------------------------------
(* Arithmetic helpers                                                      *)

Max(a, b) == IF a >= b THEN a ELSE b
Min(a, b) == IF a <= b THEN a ELSE b
Abs(a) == IF a < 0 THEN -a ELSE a
Sign(a) == IF a < 0 THEN -1 ELSE IF a > 0 THEN 1 ELSE 0

\* Math.round(n / d) for d > 0
Round(n, d) == (2 * n + d) \div (2 * d)

\* n / d cut toward zero
Trunc(n, d) == IF n >= 0 THEN n \div d ELSE -((-n) \div d)

\* F(x), with x evaluated once before F is applied to its value
Once(F(_), x) == CHOOSE y \in {F(v) : v \in {x}} : TRUE

RECURSIVE IsqrtIn(_, _, _)
IsqrtIn(n, lo, hi) ==
    IF lo >= hi THEN lo
    ELSE Once(LAMBDA mid : IF mid * mid <= n THEN IsqrtIn(n, mid, hi)
                           ELSE IsqrtIn(n, lo, mid - 1),
              (lo + hi + 1) \div 2)

\* floor of the square root, for 0 <= n < 2^30
Isqrt(n) == IsqrtIn(n, 0, 32767)

SeqToSet(s) == {s[i] : i \in 1..Len(s)}

RECURSIVE Flatten(_)
Flatten(ss) == IF ss = <<>> THEN <<>> ELSE Head(ss) \o Flatten(Tail(ss))

\* all bubbles of a grid, in traversal order (row by row)
Bubbles(g) == Flatten(g)

Key(b) == <<b.row, b.c>>

----------------------------------------------------------------------------
(* Hex grid model                                                          *)

\* the element of arr at the least index of idx, or nothing
PickFirst(arr, idx) ==
    IF idx = {} THEN <<>> ELSE <<arr[CHOOSE i \in idx : \A j \in idx : i <= j]>>

\* Array.prototype.find(x => x.c === nc): the first match, or nothing
FindCol(arr, nc) == PickFirst(arr, {i \in 1..Len(arr) : arr[i].c = nc})

\* variant: the first even-row delta is [0, 0]
DeltasTypo(even) ==
    IF even
    THEN << <<0, 0>>, <<0, 1>>, <<-1, 0>>, <<-1, 1>>, <<1, 0>>, <<1, 1>> >>
    ELSE << <<0, -1>>, <<0, 1>>, <<-1, -1>>, <<-1, 0>>, <<1, -1>>, <<1, 0>> >>

Deltas(even) ==
    IF even
    THEN << <<0, -1>>, <<0, 1>>, <<-1, 0>>, <<-1, 1>>, <<1, 0>>, <<1, 1>> >>
    ELSE << <<0, -1>>, <<0, 1>>, <<-1, -1>>, <<-1, 0>>, <<1, -1>>, <<1, 0>> >>

NeighborAt(g, b, d) ==
    IF b.row + d[1] < 0 \/ b.row + d[1] >= Len(g) THEN <<>>
    ELSE FindCol(g[b.row + d[1] + 1], b.c + d[2])

NeighborsBy(g, b, ds) == Flatten([i \in 1..6 |-> NeighborAt(g, b, ds[i])])

neighbors(g, b) ==
    IF b.row < 0 \/ b.row >= Len(g) THEN <<>>
    ELSE NeighborsBy(g, b, Deltas(b.row % 2 = 0))

NewBubble(row, c, offset, color) ==
    [row |-> row, c |-> c, x |-> r + c * r * 2 + offset, y |-> r + row * rowHeight,
     color |-> color, removing |-> FALSE, pops |-> 0]

\* bubbles initGrid creates in the rows above `row`
CountAbove(row) == row * perRow - row \div 2

\* variant: every row one bubble short
initGridShortRows(k) ==
    [row0 \in 1..rowCount |->
        [c0 \in 1..(perRow - 1) |->
            NewBubble(row0 - 1, c0 - 1, ((row0 - 1) % 2) * r,
                      Draw(k, CountAbove(row0 - 1) + c0))]]

\* initGrid, its pickColor calls drawing from stream k
initGrid(k) ==
    [row0 \in 1..rowCount |->
        [c0 \in 1..(perRow - ((row0 - 1) % 2)) |->
            NewBubble(row0 - 1, c0 - 1, ((row0 - 1) % 2) * r,
                      Draw(k, CountAbove(row0 - 1) + c0))]]

\* variant: the y shift left out
ShiftDownSkipped(g) == g

\* for (const rowArr of state.grid) for (const b of rowArr) b.y += rowHeight
ShiftDown(g) ==
    [i \in 1..Len(g) |-> [j \in 1..Len(g[i]) |-> [g[i][j] EXCEPT !.y = @ + rowHeight]]]

NewRow(k) == [c0 \in 1..perRow |-> NewBubble(0, c0 - 1, 0, Draw(k, c0))]

\* variant: the row fields are left as they were
RenumberSkipped(g) == g

\* for (row ...) for (const b of state.grid[row]) b.row = row
Renumber(g) ==
    [i \in 1..Len(g) |-> [j \in 1..Len(g[i]) |-> [g[i][j] EXCEPT !.row = i - 1]]]

\* pushRow, its pickColor calls drawing from stream k
pushRow(g, k) == Renumber(<<NewRow(k)>> \o ShiftDown(g))

----------------------------------------------------------------------------
(* Connectivity engine                                                     *)

\* variant: the dfs walks on through bubbles of another colour
RECURSIVE clusterDfsThroughColours(_, _, _, _, _)
clusterDfsThroughColours(g, todo, visited, cluster, targetColor) ==
    IF todo = <<>> THEN cluster
    ELSE IF Key(Head(todo)) \in visited
    THEN clusterDfsThroughColours(g, Tail(todo), visited, cluster, targetColor)
    ELSE clusterDfsThroughColours(g, neighbors(g, Head(todo)) \o Tail(todo),
                                  visited \cup {Key(Head(todo))},
                                  IF Head(todo).color # targetColor THEN cluster
                                  ELSE Append(cluster, Key(Head(todo))),
                                  targetColor)

\* the dfs closure of clusterCheck, with the recursion's pending calls as a stack
\* (the arguments of the next call are computed once: a[1], a[2], a[3])
RECURSIVE clusterDfs(_, _, _, _, _)
clusterDfs(g, todo, visited, cluster, targetColor) ==
    IF todo = <<>> THEN cluster
    ELSE IF Key(Head(todo)) \in visited
    THEN clusterDfs(g, Tail(todo), visited, cluster, targetColor)
    ELSE CHOOSE out \in
            {clusterDfs(g, a[1], a[2], a[3], targetColor) :
                a \in {<<IF Head(todo).color # targetColor THEN Tail(todo)
                         ELSE neighbors(g, Head(todo)) \o Tail(todo),
                         visited \cup {Key(Head(todo))},
                         IF Head(todo).color # targetColor THEN cluster
                         ELSE Append(cluster, Key(Head(todo)))>>}} : TRUE

\* b.removing = true on every bubble object of the cluster
MarkCluster(g, keys) ==
    [i \in 1..Len(g) |->
        [j \in 1..Len(g[i]) |->
            IF Key(g[i][j]) \in keys /\ FindCol(g[i], g[i][j].c) = <<g[i][j]>>
            THEN [g[i][j] EXCEPT !.removing = TRUE, !.pops = @ + 1]
            ELSE g[i][j]]]

\* variant: the threshold one too low
clusterThresholdOffByOne(n) == n >= minCluster - 1

\* cluster.length >= CONFIG.minCluster
clusterThreshold(n) == n >= minCluster

PopCluster(st, cluster) ==
    IF clusterThreshold(Len(cluster))
    THEN [grid |-> MarkCluster(st.grid, SeqToSet(cluster)),
          score |-> st.score + Len(cluster) * 10]
    ELSE st

\* clusterCheck on st = [grid, score]
clusterCheck(st, origin) ==
    Once(LAMBDA cluster : PopCluster(st, cluster),
         clusterDfs(st.grid, <<origin>>, {}, <<>>, origin.color))

\* (the arguments of the next call are computed once: a[1], a[2])
RECURSIVE connectedDfs(_, _, _)
connectedDfs(g, todo, connected) ==
    IF todo = <<>> THEN connected
    ELSE IF Key(Head(todo)) \in connected
    THEN connectedDfs(g, Tail(todo), connected)
    ELSE CHOOSE out \in
            {connectedDfs(g, a[1], a[2]) :
                a \in {<<neighbors(g, Head(todo)) \o Tail(todo),
                         connected \cup {Key(Head(todo))}>>}} : TRUE

\* variant: bubbles marked by a pop are swept out as well
FloatsOrMarked(b, connected) == Key(b) \notin connected \/ b.removing

\* !connected.has(b.row + ':' + b.c) && !b.removing
Floats(b, connected) == Key(b) \notin connected /\ ~b.removing

Spliced(st, kept) ==
    [grid |-> kept,
     score |-> st.score + 20 * (Len(Bubbles(st.grid)) - Len(Bubbles(kept)))]

DropFloating(st, connected) ==
    Spliced(st, [i \in 1..Len(st.grid) |->
                    SelectSeq(st.grid[i], LAMBDA b : ~Floats(b, connected))])

\* floatingCheck on st = [grid, score]: floating bubbles are spliced out of their rows
floatingCheck(st) ==
    Once(LAMBDA connected : DropFloating(st, connected),
         connectedDfs(st.grid, IF Len(st.grid) = 0 THEN <<>> ELSE st.grid[1], {}))

----------------------------------------------------------------------------
(* Placement                                                               *)

RECURSIVE PadRows(_, _)
PadRows(g, row) == IF Len(g) <= row THEN PadRows(Append(g, <<>>), row) ELSE g

TargetRow(targetY) == Max(0, Round(targetY - r, rowHeight))

TargetCol(row, targetX) ==
    Max(0, Min(perRow - 1, Round(targetX - (row % 2) * r - r, r * 2)))

\* variant: the occupied-slot test left out
SlotAlwaysFree(rowArr, col) == TRUE

\* variant: only bubbles not marked for removal occupy a slot
SlotFreeOfLive(rowArr, col) ==
    \A j \in 1..Len(rowArr) : rowArr[j].c = col => rowArr[j].removing

\* !rowArr.find(b => b.c === col)
SlotFree(rowArr, col) == FindCol(rowArr, col) = <<>>

PlaceRecord(st, shot, row, col, free, s1, s2, s3) ==
    [grid |-> s3.grid, score |-> s3.score,
     places |-> Append(st.places,
        [pid |-> shot.id, live |-> shot.active, row |-> row, col |-> col, free |-> free,
         before |-> [grid |-> st.grid, score |-> st.score],
         pushed |-> s1, popped |-> s2, after |-> s3])]

Settle(st, shot, row, col, s1, s2) ==
    Once(LAMBDA s3 : PlaceRecord(st, shot, row, col, TRUE, s1, s2, s3), floatingCheck(s2))

Pushed(st, shot, bubble, s1) ==
    Once(LAMBDA s2 : Settle(st, shot, bubble.row, bubble.c, s1, s2), clusterCheck(s1, bubble))

PushBubble(st, shot, g0, bubble) ==
    Once(LAMBDA s1 : Pushed(st, shot, bubble, s1),
         [grid |-> [g0 EXCEPT ![bubble.row + 1] = Append(@, bubble)], score |-> st.score])

Ignored(st, shot, row, col, s0) == PlaceRecord(st, shot, row, col, FALSE, s0, s0, s0)

PlaceSlot(st, projectile, row, col, g0) ==
    IF SlotFree(g0[row + 1], col)
    THEN PushBubble(st, projectile, g0,
                    NewBubble(row, col, (row % 2) * r, projectile.color))
    ELSE Ignored(st, projectile, row, col, [grid |-> g0, score |-> st.score])

PlaceRow(st, projectile, row, targetX) ==
    Once(LAMBDA a : PlaceSlot(st, projectile, row, a[1], a[2]),
         <<TargetCol(row, targetX), PadRows(st.grid, row)>>)

\* addBubbleAt on st = [grid, score, places]; places gets one record per call
addBubbleAt(st, projectile, targetX, targetY) ==
    Once(LAMBDA a : PlaceRow(a[1], projectile, a[2], a[3]),
         <<st, TargetRow(targetY), targetX>>)

----------------------------------------------------------------------------
(* Projectile motion and collision                                         *)

shooter == [x |-> width \div 2, y |-> height - 4000]

\* variant: the projectile is created inactive
newProjectileInactive(dir, color, id) ==
    [x |-> shooter.x, y |-> shooter.y, vx |-> dir[1], vy |-> dir[2],
     color |-> color, active |-> FALSE, bounces |-> 0, id |-> id]

newProjectile(dir, color, id) ==
    [x |-> shooter.x, y |-> shooter.y, vx |-> dir[1], vy |-> dir[2],
     color |-> color, active |-> TRUE, bounces |-> 0, id |-> id]

\* integration and friction (update, src/game.js:230-233)
Integrate(p, dt) ==
    [p EXCEPT !.x = p.x + Trunc(p.vx * dt, 1000),
              !.y = p.y + Trunc(p.vy * dt, 1000),
              !.vx = Trunc(p.vx * frictionPerMille, 1000),
              !.vy = Trunc(p.vy * frictionPerMille, 1000)]

\* if (p.bounces > CONFIG.maxBounce) p.active = false
BounceLimit(p) == IF p.bounces > maxBounce THEN [p EXCEPT !.active = FALSE] ELSE p

\* variant: the velocity is turned, the position is not clamped
WallBounceNoClamp(p) ==
    IF p.x < r THEN [p EXCEPT !.vx = Abs(p.vx), !.bounces = @ + 1]
    ELSE IF p.x > width - r THEN [p EXCEPT !.vx = -Abs(p.vx), !.bounces = @ + 1]
    ELSE p

\* wall bounce (update, src/game.js:237-238)
WallBounce(p) ==
    IF p.x < r
    THEN [p EXCEPT !.x = r, !.vx = Abs(p.vx), !.bounces = @ + 1]
    ELSE IF p.x > width - r
    THEN [p EXCEPT !.x = width - r, !.vx = -Abs(p.vx), !.bounces = @ + 1]
    ELSE p

\* dist < CONFIG.bubbleRadius * 2 - 0.5
Overlaps(p, b) ==
    (p.x - b.x) * (p.x - b.x) + (p.y - b.y) * (p.y - b.y)
        < (r * 2 - 50) * (r * 2 - 50)

FirstOverlap(bs, p) == PickFirst(bs, {i \in 1..Len(bs) : Overlaps(p, bs[i])})

\* the first bubble, in traversal order, the projectile overlaps
FirstHit(g, p) == FirstOverlap(Bubbles(g), p)

TargetAt(b, dx, dy, dist) ==
    IF dist = 0 THEN <<b.x + r * 2, b.y>>
    ELSE <<b.x + Round(dx * r * 2, dist), b.y + Round(dy * r * 2, dist)>>

\* the point at distance 2r from b's centre on the line through p's centre
HitTarget(p, b) ==
    TargetAt(b, p.x - b.x, p.y - b.y,
             Isqrt((p.x - b.x) * (p.x - b.x) + (p.y - b.y) * (p.y - b.y)))

Base(st) == [grid |-> st.grid, score |-> st.score, places |-> st.places]

\* variant: the projectile stays active after its placement
LandedStaysActive(placed, ps, p) ==
    [grid |-> placed.grid, score |-> placed.score, places |-> placed.places,
     ps |-> Append(ps, p)]

Landed(placed, ps, p) ==
    [grid |-> placed.grid, score |-> placed.score, places |-> placed.places,
     ps |-> Append(ps, [p EXCEPT !.active = FALSE])]

\* if (p.y > canvas.height - 12) p.active = false
Floor(p) == IF p.y > height - 1200 THEN [p EXCEPT !.active = FALSE] ELSE p

Collide(st, p, hit) ==
    IF hit = <<>> THEN [st EXCEPT !.ps = Append(@, Floor(p))]
    ELSE Once(LAMBDA placed : Landed(placed, st.ps, p),
              Once(LAMBDA target : addBubbleAt(Base(st), p, target[1], target[2]),
                   HitTarget(p, hit[1])))

Resolve(st, p) ==
    IF p.y < r
    THEN Once(LAMBDA placed : Landed(placed, st.ps, p), addBubbleAt(Base(st), p, p.x, r))
    ELSE Once(LAMBDA hit : Collide(st, p, hit), FirstHit(st.grid, p))

\* what the history keeps of a wall crossing: the side, the direction and the
\* bounce count the projectile came with, and what the bounce step made of it
Crossing(p, integrated, bounced) ==
    [id |-> p.id,
     side |-> IF integrated.x < r THEN "left" ELSE "right",
     vx |-> Sign(integrated.vx),
     bounces |-> p.bounces,
     after |-> [x |-> bounced.x, vx |-> Sign(bounced.vx), bounces |-> bounced.bounces]]

\* a projectile step that crossed a wall
Move(p, integrated) ==
    IF integrated.x < r \/ integrated.x > width - r
    THEN <<Crossing(p, integrated, WallBounce(integrated))>>
    ELSE <<>>

\* the wall crossings of the projectiles ps in a frame of dt ms (kept in the
\* history of the frame)
Moves(ps, dt) == Flatten([i \in 1..Len(ps) |-> Move(ps[i], Integrate(ps[i], dt))])

\* one projectile's turn in update's loop, on st = [grid, score, places, ps]
StepProjectile(st, p, dt) ==
    Once(LAMBDA a : Resolve(a[1], a[2]), <<st, BounceLimit(WallBounce(Integrate(p, dt)))>>)

RECURSIVE StepAll(_, _, _)
StepAll(st, todo, dt) ==
    IF todo = <<>> THEN st
    ELSE Once(LAMBDA a : StepAll(a[1], a[2], dt),
              <<StepProjectile(st, Head(todo), dt), Tail(todo)>>)

----------------------------------------------------------------------------
(* Simulation loop                                                         *)

\* variant: the danger line at the canvas bottom
dangerYNoMargin == height

\* const dangerY = canvas.height - 100
dangerY == height - 10000

IsEmpty(g) == \A i \in 1..Len(g) : Len(g[i]) = 0

InDanger(g) == \E i \in 1..Len(g) : \E j \in 1..Len(g[i]) : g[i][j].y > dangerY

NoFrom == [over |-> FALSE, text |-> "none", flying |-> FALSE]

NoLog == [op |-> "none", places |-> <<>>, push |-> <<>>, moves |-> <<>>, dt |-> 0,
          from |-> NoFrom]

\* variant: the win branch calls endGame(true) without setting state.gameOver
EndGameForgetsFlag(win, lose) ==
    /\ gameOver' = (gameOver \/ lose)
    /\ overlay' = IF win THEN [show |-> TRUE, text |-> "win"]
                  ELSE IF lose THEN [show |-> TRUE, text |-> "lose"]
                  ELSE overlay
    /\ endGameCalls' = [win |-> endGameCalls.win + (IF win THEN 1 ELSE 0),
                        lose |-> endGameCalls.lose + (IF lose THEN 1 ELSE 0)]

\* state.gameOver = true; endGame(win)
EndGame(win, lose) ==
    /\ gameOver' = (gameOver \/ win \/ lose)
    /\ overlay' = IF win THEN [show |-> TRUE, text |-> "win"]
                  ELSE IF lose THEN [show |-> TRUE, text |-> "lose"]
                  ELSE overlay
    /\ endGameCalls' = [win |-> endGameCalls.win + (IF win THEN 1 ELSE 0),
                        lose |-> endGameCalls.lose + (IF lose THEN 1 ELSE 0)]

\* the win / lose evaluation that ends update (src/game.js:284-291)
WinLose(win, g) == EndGame(win, ~(gameOver \/ win) /\ InDanger(g))

Finish(moved, push, g, dt) ==
    /\ grid' = g
    /\ score' = moved.score
    /\ projectiles' = SelectSeq(moved.ps, LAMBDA p : p.active)
    /\ WinLose(~gameOver /\ IsEmpty(g), g)
    /\ log' = [op |-> "update", places |-> moved.places,
               push |-> IF push THEN <<[before |-> moved.grid, after |-> g]>> ELSE <<>>,
               moves |-> Moves(projectiles, dt), dt |-> dt, from |-> NoFrom]

\* variant: the interval has to be exceeded
RowPressureStrict(moved, timer, k, dt) ==
    /\ spawnTimer' = IF timer > spawnRowInterval THEN 0 ELSE timer
    /\ Finish(moved, timer > spawnRowInterval,
              IF timer > spawnRowInterval THEN pushRow(moved.grid, k) ELSE moved.grid, dt)

\* variant: the timer is reset without a row push
RowPressureNoPush(moved, timer, k, dt) ==
    /\ spawnTimer' = IF timer >= spawnRowInterval THEN 0 ELSE timer
    /\ Finish(moved, FALSE, moved.grid, dt)

\* the periodic row push (src/game.js:281-282)
RowPressure(moved, timer, k, dt) ==
    /\ spawnTimer' = IF timer >= spawnRowInterval THEN 0 ELSE timer
    /\ \E g \in {IF timer >= spawnRowInterval THEN pushRow(moved.grid, k) ELSE moved.grid} :
          Finish(moved, timer >= spawnRowInterval, g, dt)

\* update(dt) while the game runs; a row push draws its colours from stream k
update(dt, k) ==
    \E moved \in {StepAll([grid |-> grid, score |-> score, places |-> <<>>, ps |-> <<>>],
                           projectiles, dt)} :
        RowPressure(moved, spawnTimer + dt, k, dt)

\* frame durations (ms) the driver delivers: a regular frame and a stalled one.
\* Regular frames are enumerated while a shot is in flight.
DtSet == {frameMs, 7000}

\* variant: every frame sees no time elapsed
ElapsedNever(d) == 0

\* if (!state.lastTime) state.lastTime = ts; dt = (ts - state.lastTime) / 1000
Elapsed(d) == IF lastTime = 0 THEN 0 ELSE d

\* if (!state.gameOver) update(dt)
\* variant: the loop updates in every state
RunningAlways == TRUE

Running == ~gameOver

\* gameLoop(ts), d ms after the previous frame
Frame(d) ==
    /\ lastTime' = 1
    /\ IF ~Running
       THEN /\ log' = [NoLog EXCEPT !.op = "frame"]
            /\ UNCHANGED <<grid, projectiles, score, spawnTimer, gameOver,
                           overlay, endGameCalls>>
       ELSE \E k \in (IF spawnTimer + Elapsed(d) >= spawnRowInterval
                      THEN Streams ELSE {1}) :
               update(Elapsed(d), k)
    /\ UNCHANGED <<nextColor, shots, canvas, frameMs>>

\* gameLoop(ts): one animation frame
gameLoop ==
    \E d \in DtSet :
        /\ d < 1000 => projectiles # <<>>
        /\ Frame(d)

\* a projectile that still has speed
Moving(p) == p.vx # 0 \/ p.vy # 0

\* the frame duration of a display that runs steadily while a shot moves
SteadyDt == IF \E i \in 1..Len(projectiles) : Moving(projectiles[i]) THEN frameMs ELSE 7000

\* gameLoop(ts) on a steady display
gameLoopSteady == Frame(SteadyDt)

\* launch directions: Math.cos / Math.sin of state.shooter.angle times launchSpeed
\* (angle -90 degrees: straight up, and -120 / -60 degrees: 30 degrees to either side)
LaunchDirs ==
    { <<0, -(launchSpeed * 100)>>,
      <<-(launchSpeed * 50), -((launchSpeed * 8660) \div 100)>>,
      <<launchSpeed * 50, -((launchSpeed * 8660) \div 100)>> }

\* the flattest directions the aim clamp allows (angle -0.2 and -PI + 0.2:
\* cos 0.2 = 0.98007, sin 0.2 = 0.19867)
FlatDirs ==
    { <<(launchSpeed * 98007) \div 1000, -((launchSpeed * 19867) \div 1000)>>,
      <<-((launchSpeed * 98007) \div 1000), -((launchSpeed * 19867) \div 1000)>> }

\* newProjectile() with state.shooter.angle in dirs
Fire(dirs) ==
    /\ \E dir \in dirs, first \in colors, next \in colors :
          /\ nextColor = "null" \/ first = nextColor
          /\ projectiles' = Append(projectiles, newProjectile(dir, first, shots + 1))
          /\ nextColor' = next
    /\ shots' = shots + 1
    /\ log' = [NoLog EXCEPT !.op = "click"]
    /\ UNCHANGED <<grid, score, gameOver, lastTime, spawnTimer, overlay, canvas,
                   frameMs, endGameCalls>>

\* the click / touchstart handler
\* variant: the handler fires in every state
RejectedNever == FALSE

\* if (state.gameOver || overlay.classList.contains('show')) return;
Rejected == gameOver \/ overlay.show

\* the handler returns without a projectile
Reject ==
    /\ log' = [NoLog EXCEPT !.op = "rejected"]
    /\ UNCHANGED <<grid, projectiles, nextColor, score, shots, gameOver, lastTime,
                   spawnTimer, overlay, canvas, frameMs, endGameCalls>>

\* the canvas click handler (touchstart: the same test, then newProjectile)
click ==
    IF Rejected
    THEN Reject
    ELSE /\ shots < MaxShots
         /\ Fire(LaunchDirs)

\* the click / touchstart handler with the aim at its clamp, one shot at a time
clickFlat ==
    IF Rejected
    THEN Reject
    ELSE /\ shots < MaxShots
         /\ projectiles = <<>>
         /\ Fire(FlatDirs)

startGame ==
    /\ \E k \in Streams : grid' = initGrid(k)
    /\ \E c \in colors : nextColor' = c
    /\ projectiles' = <<>>
    /\ score' = 0
    /\ shots' = 0
    /\ gameOver' = FALSE
    /\ lastTime' = 0
    /\ spawnTimer' = 0
    /\ overlay' = [overlay EXCEPT !.show = FALSE]
    /\ endGameCalls' = [win |-> 0, lose |-> 0]
    /\ log' = [NoLog EXCEPT !.op = "startGame",
                            !.from = [over |-> gameOver, text |-> overlay.text,
                                      flying |-> projectiles # <<>>]]
    /\ UNCHANGED <<canvas, frameMs>>

\* the state at page load (src/game.js:81-95); whether the page shows the
\* start overlay is the page's choice
PageLoad ==
    /\ grid = <<>>
    /\ projectiles = <<>>
    /\ nextColor = "null"
    /\ score = 0
    /\ shots = 0
    /\ gameOver = FALSE
    /\ lastTime = 0
    /\ spawnTimer = 0
    /\ overlay \in {[show |-> s, text |-> "start"] : s \in BOOLEAN}
    /\ endGameCalls = [win |-> 0, lose |-> 0]
    /\ log = NoLog

Init ==
    /\ PageLoad
    /\ canvas = [width |-> CanvasWidth, height |-> CanvasHeight]
    /\ frameMs = 40

Next == gameLoop \/ click \/ startGame

Spec == Init /\ [][Next]_vars

\* a tall canvas on a slow (110 ms) display: flat shots cross it many times
InitFlight ==
    /\ PageLoad
    /\ canvas = [width |-> CanvasWidth, height |-> FlightHeight]
    /\ frameMs = 110

NextFlight == gameLoopSteady \/ clickFlat \/ startGame

SpecFlight == InitFlight /\ [][NextFlight]_vars

\* a game just started (startGame with the first colour stream) on the canvas
\* of Init and a fast (5 ms) display, where friction stops a flat shot in mid-air
InitLive ==
    /\ canvas = [width |-> CanvasWidth, height |-> CanvasHeight]
    /\ frameMs = 5
    /\ grid = initGrid(1)
    /\ projectiles = <<>>
    /\ nextColor \in colors
    /\ score = 0
    /\ shots = 0
    /\ gameOver = FALSE
    /\ lastTime = 0
    /\ spawnTimer = 0
    /\ overlay = [show |-> FALSE, text |-> "start"]
    /\ endGameCalls = [win |-> 0, lose |-> 0]
    /\ log = [NoLog EXCEPT !.op = "startGame"]

NextLive == gameLoopSteady \/ clickFlat

\* requestAnimationFrame(gameLoop) at the end of every frame: frames keep coming
SpecLive == InitLive /\ [][NextLive]_vars /\ WF_vars(gameLoopSteady)

\* a game just started by startGame (any colour stream, any loaded colour), on
\* the canvas of Init or on the tall one
InitIdle ==
    /\ canvas \in {[width |-> CanvasWidth, height |-> h] : h \in {CanvasHeight, FlightHeight}}
    /\ frameMs = 40
    /\ grid \in {initGrid(k) : k \in Streams}
    /\ projectiles = <<>>
    /\ nextColor \in colors
    /\ score = 0
    /\ shots = 0
    /\ gameOver = FALSE
    /\ lastTime = 0
    /\ spawnTimer = 0
    /\ overlay = [show |-> FALSE, text |-> "start"]
    /\ endGameCalls = [win |-> 0, lose |-> 0]
    /\ log = [NoLog EXCEPT !.op = "startGame"]

\* gameLoop(ts) with no shot in flight: one or seven seconds after the previous frame
gameLoopIdle == \E d \in {1000, 7000} : Frame(d)

NextIdle == gameLoopIdle

\* the player never fires; requestAnimationFrame(gameLoop) keeps the frames coming
SpecIdle == InitIdle /\ [][NextIdle]_vars /\ WF_vars(gameLoopIdle)

\* the cells of the grids the pop check is tried on: three rows of three columns
PopCells == {<<row, c>> : row \in 0..2, c \in 0..2}

\* the row of a grid with a bubble in every cell that colouring f gives a colour
RowOf(f, row) ==
    Flatten([c0 \in 1..3 |->
                IF f[<<row, c0 - 1>>] = "none" THEN <<>>
                ELSE <<NewBubble(row, c0 - 1, (row % 2) * r, f[<<row, c0 - 1>>])>>])

GridOf(f) == [row0 \in 1..3 |-> RowOf(f, row0 - 1)]

\* a running game with any arrangement of bubbles in the cells, holes included
InitCluster ==
    /\ canvas = [width |-> CanvasWidth, height |-> CanvasHeight]
    /\ frameMs = 40
    /\ grid \in {GridOf(f) : f \in [PopCells -> colors \cup {"none"}]}
    /\ projectiles = <<>>
    /\ nextColor = "blue"
    /\ score = 0
    /\ shots = 0
    /\ gameOver = FALSE
    /\ lastTime = 1
    /\ spawnTimer = 0
    /\ overlay = [show |-> FALSE, text |-> "start"]
    /\ endGameCalls = [win |-> 0, lose |-> 0]
    /\ log = NoLog

\* clusterCheck(origin) on the grid, once, for any bubble of it
popCheck ==
    /\ log.op = "none"
    /\ \E origin \in SeqToSet(Bubbles(grid)) :
          /\ \E st \in {clusterCheck([grid |-> grid, score |-> score], origin)} :
                grid' = st.grid /\ score' = st.score
          /\ log' = [op |-> "clusterCheck", places |-> <<>>, push |-> <<>>, moves |-> <<>>,
                     dt |-> 0, from |-> NoFrom, origin |-> origin, before |-> grid,
                     cluster |-> clusterDfs(grid, <<origin>>, {}, <<>>, origin.color)]
    /\ UNCHANGED <<projectiles, nextColor, shots, gameOver, lastTime, spawnTimer,
                   overlay, canvas, frameMs, endGameCalls>>

NextCluster == popCheck

SpecCluster == InitCluster /\ [][NextCluster]_vars

----------------------------------------------------------------------------
(* Properties                                                              *)

\* the placements of the last update frame
Places == SeqToSet(log.places)

\* every arrangement of bubbles the last handler produced on its way
SeenGrids ==
    {grid} \cup UNION {{e.pushed.grid, e.after.grid} : e \in Places}

Occupied(g, row, col) ==
    row < Len(g) /\ \E j \in 1..Len(g[row + 1]) : g[row + 1][j].c = col

\* same-colour bubbles one neighbor link away from a set of cells
SameColourStep(g, keys, colour) ==
    keys \cup {Key(n) : n \in UNION {SeqToSet(neighbors(g, b)) :
                                       b \in {x \in SeqToSet(Bubbles(g)) : Key(x) \in keys}}
                 \cap {x \in SeqToSet(Bubbles(g)) : x.color = colour}}

\* the connected same-colour component of a cell: a least fixed point
RECURSIVE Component(_, _, _)
Component(g, keys, colour) ==
    IF SameColourStep(g, keys, colour) = keys THEN keys
    ELSE Component(g, SameColourStep(g, keys, colour), colour)

\* the component of the bubble a placement pushed
PlacedComponent(e) ==
    Component(e.pushed.grid, {<<e.row, e.col>>},
              e.pushed.grid[e.row + 1][Len(e.pushed.grid[e.row + 1])].color)

\* cells reachable from row 0 over neighbor links: a least fixed point
AnchorStep(g, keys) ==
    keys \cup {Key(n) : n \in UNION {SeqToSet(neighbors(g, b)) :
                                       b \in {x \in SeqToSet(Bubbles(g)) : Key(x) \in keys}}}

RECURSIVE Anchored(_, _)
Anchored(g, keys) ==
    IF AnchorStep(g, keys) = keys THEN keys ELSE Anchored(g, AnchorStep(g, keys))

AnchoredCells(g) ==
    Anchored(g, IF Len(g) = 0 THEN {} ELSE {Key(b) : b \in SeqToSet(g[1])})

\* a placement whose pop check marked a cluster
Popped(e) == e.free /\ e.popped # e.pushed

\* C1: after an update frame no popped (marked) bubble still occupies a grid cell.
C1_PoppedBubblesLeaveGrid ==
    \A i \in 1..Len(grid) : \A j \in 1..Len(grid[i]) : ~grid[i][j].removing

\* what the pop check of placement e did, against the placed bubble's component
PopOutcome(e, component) ==
    IF Cardinality(component) >= 3
    THEN /\ e.popped.score = e.pushed.score + 10 * Cardinality(component)
         /\ \A b \in SeqToSet(Bubbles(e.popped.grid)) : Key(b) \in component => b.removing
    ELSE e.popped = e.pushed

\* C2: the pop check marks the placed bubble's component and adds 10 points per
\* member exactly when the component has 3 or more members; otherwise it changes
\* neither the grid nor the score.
C2_PopThresholdIsThree ==
    \A e \in Places : e.free => PopOutcome(e, PlacedComponent(e))

C2_Witness ==
    \E e \in Places : e.free /\ Cardinality(PlacedComponent(e)) = 2 /\ e.popped = e.pushed

\* C3: no bubble is collected (marked and scored) by the checks more than once.
C3_NoBubbleCollectedTwice ==
    \A i \in 1..Len(grid) : \A j \in 1..Len(grid[i]) : grid[i][j].pops <= 1

\* C4: a placement at an occupied slot changes neither the grid (bubbles, their
\* attributes, the rows) nor the score, and its projectile is gone after the frame.
C4_OccupiedSlotIsNoOp ==
    \A e \in Places :
        Occupied(e.before.grid, e.row, e.col) =>
            /\ e.after = e.before
            /\ \A i \in 1..Len(projectiles) : projectiles[i].id # e.pid

C4_Witness ==
    \E e \in Places : Occupied(e.before.grid, e.row, e.col) /\ e.before.grid # <<>>

\* C5: after a placement that popped a cluster and its floating check, every
\* bubble of the grid reachable from row 0 is unmarked.
C5_AnchoredBubblesUnmarked ==
    \A e \in Places :
        Popped(e) =>
            \A b \in SeqToSet(Bubbles(e.after.grid)) :
                Key(b) \in AnchoredCells(e.after.grid) => ~b.removing

\* st is what a floating check left, and one more floating check leaves it as it is
SettledAfterCheck(st) == floatingCheck(st) = st

\* C6: a second floating check, straight after one, changes neither grid nor score
\* (after the floating check of a placement, and after one run on the grid that
\* startGame or a row push left).
C6_FloatingCheckIdempotent ==
    /\ \A e \in Places : e.free => SettledAfterCheck(e.after)
    /\ (log.op = "startGame" \/ log.push # <<>>) =>
          SettledAfterCheck(floatingCheck([grid |-> grid, score |-> score]))

C6_Witness ==
    \E e \in Places : e.free /\ e.after # e.popped /\ floatingCheck(e.after) = e.after

\* C7: a frame of a running game that ends with no bubble in the grid ends the
\* game as a win with one endGame(true) call, and no later frame calls it again.
C7_WinOnce ==
    /\ endGameCalls.win <= 1
    /\ (log.op \in {"update", "frame"} /\ IsEmpty(grid)) =>
          (gameOver /\ overlay = [show |-> TRUE, text |-> "win"] /\ endGameCalls.win = 1)

C7_Witness ==
    log.op = "frame" /\ gameOver /\ overlay.text = "win" /\ endGameCalls.win = 1

\* C8: a frame that ends with a bubble below the danger line (canvas height - 100)
\* ends the game as a loss, with one endGame(false) call.
C8_LoseWithinFrame ==
    /\ endGameCalls.lose <= 1
    /\ (log.op \in {"update", "frame"}
          /\ \E b \in SeqToSet(Bubbles(grid)) : b.y > height - 10000) =>
          (gameOver /\ overlay = [show |-> TRUE, text |-> "lose"] /\ endGameCalls.lose = 1)

C8_Witness ==
    /\ log.op = "update" /\ gameOver /\ overlay.text = "lose" /\ log.push = <<>>
    /\ \E e \in Places : e.free /\ r + e.row * rowHeight > height - 10000
                         /\ Occupied(grid, e.row, e.col)

\* C9: a row push turns k rows into k + 1, moves every prior bubble one row and one
\* row height down with column and colour kept, and puts a full row at y = radius on top.
C9_PushRowShifts ==
    \A e \in SeqToSet(log.push) :
        /\ Len(e.after) = Len(e.before) + 1
        /\ \A i \in 1..Len(e.before) :
              /\ Len(e.after[i + 1]) = Len(e.before[i])
              /\ \A j \in 1..Len(e.before[i]) :
                    /\ e.after[i + 1][j].c = e.before[i][j].c
                    /\ e.after[i + 1][j].color = e.before[i][j].color
                    /\ e.after[i + 1][j].row = e.before[i][j].row + 1
                    /\ e.after[i + 1][j].y = e.before[i][j].y + rowHeight
        /\ Len(e.after[1]) = perRow
        /\ {b.c : b \in SeqToSet(e.after[1])} = 0..(perRow - 1)
        /\ \A b \in SeqToSet(e.after[1]) : b.y = r /\ b.row = 0

C9_Witness ==
    \E e \in SeqToSet(log.push) : Len(e.before) = 2 /\ Len(Bubbles(e.before)) > perRow

\* ns holds at most 6 bubbles, each in a cell of a row of g, none of them b
InGridNeighbors(g, b, ns) ==
    /\ Len(ns) <= 6
    /\ \A i \in 1..Len(ns) :
          /\ ns[i] # b
          /\ ns[i].row \in 0..(Len(g) - 1)
          /\ ns[i] \in SeqToSet(g[ns[i].row + 1])

\* C10: neighbors(b) returns at most 6 bubbles, each in a cell of a row of the grid,
\* and never b itself.
C10_NeighborsInGrid ==
    \A g \in SeenGrids :
        \A b \in SeqToSet(Bubbles(g)) : InGridNeighbors(g, b, neighbors(g, b))

C10_Witness ==
    \E b \in SeqToSet(Bubbles(grid)) : Len(neighbors(grid, b)) = 6

\* the wall crossings of the last update frame
FrameMoves == SeqToSet(log.moves)

\* C11: a projectile that crosses the left bound with vx < 0 leaves the bounce step at
\* x = radius with vx > 0 and one more bounce; at the right bound at x = width - radius
\* with vx < 0; every projectile ends every frame with x in [radius, width - radius].
C11_WallBounceClamps ==
    /\ \A m \in FrameMoves :
          /\ (m.side = "left" /\ m.vx < 0) =>
                /\ m.after.x = r
                /\ m.after.vx > 0
                /\ m.after.bounces = m.bounces + 1
          /\ (m.side = "right" /\ m.vx > 0) =>
                /\ m.after.x = width - r
                /\ m.after.vx < 0
                /\ m.after.bounces = m.bounces + 1
    /\ \A i \in 1..Len(projectiles) :
          projectiles[i].x >= r /\ projectiles[i].x <= width - r

C11_Witness ==
    \E m \in FrameMoves :
        /\ m.side = "left" /\ m.vx < 0
        /\ \E i \in 1..Len(projectiles) :
              /\ projectiles[i].id = m.id
              /\ projectiles[i].x = r /\ projectiles[i].bounces > 1

\* C12: a projectile deactivated by the bounce limit places no bubble: every
\* placement call is made for a projectile that was still active after the
\* bounce-limit test.
C12_BounceLimitWastesShot == \A e \in Places : e.live

\* C13: a fire command received while the game is ENDED is rejected silently:
\* no projectile is created, and the shot counter, the loaded colour, the
\* grid and the score are unchanged.
C13_FireWhileEndedRejected ==
    [][(gameOver /\ log'.op \in {"click", "rejected"})
         => UNCHANGED <<projectiles, shots, nextColor, grid, score>>]_vars

\* a fire command arrived in an ended game that had shots left
C13_Witness == gameOver /\ log.op = "rejected" /\ shots < MaxShots

\* C14: ENDED is terminal until an explicit reset: once the game is ENDED no
\* frame and no fire command changes the grid, the projectiles, the score,
\* the shot counter or the row-pressure timer, and the game stays ENDED until
\* startGame is called.
C14_EndedIsTerminal ==
    [][(gameOver /\ log'.op # "startGame")
         => (gameOver' /\ UNCHANGED <<grid, projectiles, score, shots, spawnTimer>>)]_vars

\* a frame arrived in an ended game that still holds a projectile
C14_Witness == gameOver /\ log.op = "frame" /\ projectiles # <<>>

\* C15: a fire command accepted while RUNNING creates exactly one projectile
\* at once, at the shooter position, active, with bounce count 0 and with the
\* colour that was loaded just before the command; the shot counter grows by
\* exactly 1, a new loaded colour of the palette is selected, and the grid
\* and the score are unchanged.
C15_AcceptedFire ==
    [][(~gameOver /\ log'.op = "click")
         => /\ Len(projectiles') = Len(projectiles) + 1
            /\ SubSeq(projectiles', 1, Len(projectiles)) = projectiles
            /\ LET p == projectiles'[Len(projectiles')]
               IN  /\ p.x = shooter.x /\ p.y = shooter.y
                   /\ p.active /\ p.bounces = 0
                   /\ nextColor # "null" => p.color = nextColor
                   /\ p.color \in colors
            /\ shots' = shots + 1
            /\ nextColor' \in colors
            /\ UNCHANGED <<grid, score>>]_vars

\* a second shot was fired with a loaded colour while the first is in flight
C15_Witness ==
    /\ log.op = "click" /\ shots = 2 /\ Len(projectiles) = 2
    /\ projectiles[2].bounces = 0 /\ projectiles[2].y = shooter.y

\* C16: startGame, called from any state (never started, running, won or
\* lost, with projectiles in flight or not), yields a fresh state: the
\* configured initial rows fully populated, no projectiles, score 0, shot
\* counter 0, row-pressure timer 0, a loaded colour of the palette, and a
\* running game.
FreshGrid(g) ==
    /\ Len(g) = rowCount
    /\ \A i \in 1..rowCount :
          /\ Len(g[i]) = perRow - ((i - 1) % 2)
          /\ \A j \in 1..Len(g[i]) :
                /\ g[i][j].row = i - 1 /\ g[i][j].c = j - 1
                /\ g[i][j].x = r + (j - 1) * 2 * r + ((i - 1) % 2) * r
                /\ g[i][j].y = r + (i - 1) * rowHeight
                /\ g[i][j].color \in colors /\ ~g[i][j].removing

C16_StartGameFresh ==
    log.op = "startGame" =>
        /\ FreshGrid(grid)
        /\ projectiles = <<>>
        /\ score = 0 /\ shots = 0 /\ spawnTimer = 0
        /\ nextColor \in colors
        /\ ~gameOver /\ ~overlay.show

\* startGame was called on a lost game that still held a projectile
C16_Witness ==
    /\ log.op = "startGame"
    /\ log.from.over /\ log.from.text = "lose" /\ log.from.flying

\* C17: in each frame of a running game the row-pressure timer grows by the
\* elapsed time; pushRow is invoked exactly when the accumulated timer has
\* reached the interval, at most once in the frame, and the timer is then
\* reset to zero, so the timer is below the interval at the end of every
\* frame. Only this reset and startGame ever lower the timer.
C17_RowPressureTimer ==
    [][/\ log'.op = "update" =>
             /\ (spawnTimer + log'.dt >= spawnRowInterval) <=> (log'.push # <<>>)
             /\ Len(log'.push) <= 1
             /\ spawnTimer' = IF log'.push # <<>> THEN 0 ELSE spawnTimer + log'.dt
             /\ spawnTimer' < spawnRowInterval
       /\ spawnTimer' < spawnTimer => (log'.op = "startGame" \/ log'.push # <<>>)
       /\ ~gameOver => log'.op # "frame"]_vars

\* a frame reached the interval exactly: the row was pushed and the timer reset
C17_Witness ==
    /\ log.op = "update" /\ log.dt > 0 /\ log.push # <<>> /\ spawnTimer = 0
    /\ Len(grid) > rowCount

\* C18: in every reachable state no two bubbles of the same grid row share
\* a column.
C18_ColumnsUnique ==
    \A i \in 1..Len(grid) :
        \A j, k \in 1..Len(grid[i]) : grid[i][j].c = grid[i][k].c => j = k

\* a bubble was placed into a row below the initial ones that already held one
C18_Witness ==
    \E e \in Places :
        /\ e.free /\ e.row >= rowCount
        /\ Len(e.before.grid) > e.row /\ e.before.grid[e.row + 1] # <<>>

\* C19: in every reachable state every bubble's stored row equals the index
\* of the row that holds it.
C19_StoredRowIsIndex ==
    \A i \in 1..Len(grid) : \A j \in 1..Len(grid[i]) : grid[i][j].row = i - 1

\* a row push moved a bubble placed by a shot, together with the initial rows
C19_Witness ==
    /\ log.push # <<>>
    /\ Len(grid) > rowCount + 1
    /\ \E j \in 1..Len(grid[Len(grid)]) : grid[Len(grid)][j].row = Len(grid) - 1

\* the shot with this number is in state.projectiles
InFlight(id) == \E i \in 1..Len(projectiles) : projectiles[i].id = id

AttemptsOf(places, id) == {i \in 1..Len(places) : places[i].pid = id}

\* C21: only the first collision is honoured: a frame makes at most one
\* placement attempt per projectile, for a projectile that was in flight and
\* is removed by the frame (so none follows in a later frame); an attempt adds
\* at most one bubble to the grid, also when several projectiles resolve in
\* the same frame.
C21_OnePlacementPerShot ==
    [][/\ \A id \in 1..MaxShots : Cardinality(AttemptsOf(log'.places, id)) <= 1
       /\ \A e \in SeqToSet(log'.places) :
             /\ InFlight(e.pid) /\ ~InFlight(e.pid)'
             /\ Len(Bubbles(e.pushed.grid)) <= Len(Bubbles(e.before.grid)) + 1
             /\ Len(Bubbles(e.after.grid)) <= Len(Bubbles(e.pushed.grid))
       /\ \A i, j \in 1..Len(projectiles') :
             projectiles'[i].id = projectiles'[j].id => i = j]_vars

\* two projectiles resolved in the same frame and each added its bubble
C21_Witness ==
    /\ Len(log.places) = 2
    /\ log.places[1].free /\ log.places[2].free
    /\ log.places[1].pid # log.places[2].pid
    /\ Len(Bubbles(log.places[2].pushed.grid)) = Len(Bubbles(log.places[1].before.grid)) + 2

\* the dfs collected each cell of the component once, and nothing else
CollectedIs(cluster, component) ==
    SeqToSet(cluster) = component /\ Len(cluster) = Cardinality(component)

\* C22: for every grid and every starting bubble, the bubbles the pop check's
\* dfs collects are the maximal set of bubbles of the starting bubble's colour
\* connected to it through chains of same-coloured neighbors, each collected
\* once.
C22_ClusterIsComponent ==
    log.op = "clusterCheck" =>
        CollectedIs(log.cluster,
                    Component(log.before, {Key(log.origin)}, log.origin.color))

\* a component of three or more was collected and marked, which a bubble of the
\* other colour keeps apart from another bubble of its own colour
C22_Witness ==
    /\ log.op = "clusterCheck"
    /\ Len(log.cluster) >= 3
    /\ \E x \in SeqToSet(Bubbles(log.before)) :
          x.color = log.origin.color /\ Key(x) \notin SeqToSet(log.cluster)
    /\ \E n \in SeqToSet(neighbors(log.before, log.origin)) : n.color # log.origin.color
    /\ score = 10 * Len(log.cluster)

\* the game ended as a loss
Lost == gameOver /\ overlay = [show |-> TRUE, text |-> "lose"]

\* C23: when no fire command is issued after startGame and frames keep
\* arriving with positive elapsed time, the row pushes move the grid down and
\* the game eventually ends as a loss.
C23_IdleGameIsLost == <>(Lost /\ shots = 0 /\ endGameCalls = [win |-> 0, lose |-> 1])

\* on the tall canvas, a game without a shot was lost by a row push after at
\* least three of them
C23_Witness ==
    /\ Lost /\ shots = 0
    /\ log.op = "update" /\ log.push # <<>> /\ log.places = <<>>
    /\ Len(grid) >= rowCount + 3
    /\ InDanger(grid)

\* C24: at the end of every frame of a running game no bubble of the grid is
\* floating: every bubble has a path of neighbor links back to a bubble of row 0.
C24_NoFloatingBubble ==
    (log.op = "update" /\ ~gameOver) =>
        \A b \in SeqToSet(Bubbles(grid)) : Key(b) \in AnchoredCells(grid)

\* bubble b is one of neighbors(a) in grid g
Adjacent(g, a, b) == b \in SeqToSet(neighbors(g, a))

\* C25: a row push preserves adjacency among the bubbles that existed before
\* it: for any two prior bubbles a and b, b is in neighbors(a) after the push
\* exactly if it was before.
C25_PushRowKeepsAdjacency ==
    \A e \in SeqToSet(log.push) :
        \A i1, i2 \in 1..Len(e.before) :
            \A j1 \in 1..Len(e.before[i1]), j2 \in 1..Len(e.before[i2]) :
                Adjacent(e.before, e.before[i1][j1], e.before[i2][j2])
                    <=> Adjacent(e.after, e.after[i1 + 1][j1], e.after[i2 + 1][j2])

\* the centre of the slot (row, c)
SlotCentre(row, c) == [x |-> r + 2 * r * c + (row % 2) * r, y |-> r + row * rowHeight]

\* C26: in every reachable state each bubble's stored position is the centre
\* of its own (row, column) slot.
C26_BubbleAtSlotCentre ==
    \A b \in SeqToSet(Bubbles(grid)) : [x |-> b.x, y |-> b.y] = SlotCentre(b.row, b.c)

\* C27: every bubble of the grid lies horizontally inside the play area: its
\* centre satisfies radius <= x <= width - radius, with width = 2 * radius *
\* cellsPerRow.
C27_BubbleInsidePlayArea ==
    \A b \in SeqToSet(Bubbles(grid)) : b.x >= r /\ b.x <= 2 * r * perRow - r

\* neither startGame nor newProjectile has run since the page was loaded
NeverStarted == nextColor = "null"

\* C28: before startGame has ever been called the frame loop never sets the
\* game-over flag and never calls endGame.
C28_NoEndBeforeStart ==
    NeverStarted => (~gameOver /\ endGameCalls = [win |-> 0, lose |-> 0])

\* the game ended as a win on a grid without bubbles
Won == gameOver /\ overlay = [show |-> TRUE, text |-> "win"] /\ IsEmpty(grid)

\* once startGame has filled the grid, row 0 holds a bubble in every column for
\* good (no pop, drop or row push ever takes a bubble out of row 0), so the
\* grid is not emptied again; holds in every state of Spec, SpecFlight,
\* SpecLive and SpecIdle
RowZeroStaysFull ==
    grid # <<>> =>
        /\ {b.c : b \in SeqToSet(grid[1])} = 0..(perRow - 1)
        /\ ~Won /\ endGameCalls.win = 0

\* C29: the win state is reachable through play: the fire commands and frames
\* that follow startGame lead to a grid with zero bubbles and ENDED/WIN.
\* (By RowZeroStaysFull no behaviour gets there, not only the one TLC shows.)
C29_WinReachable == <>Won

====
